---- MODULE Spec2Model ----
(***************************************************************************)
(* A state-machine model of libcuid2: the two process-lifetime singletons  *)
(* (Counter, Fingerprint), the platform layer they read, and the           *)
(* identifier pipeline of visus::cuid2::generate().                        *)
(*                                                                         *)
(* Representation.  A byte is a number in 0..255.  A std::string or a      *)
(* std::vector<uint8_t> is a sequence of bytes (characters are their ASCII *)
(* codes).  A 64-bit integer (int64_t / uint64_t bit pattern) is the       *)
(* sequence of its 8 base-256 digits, most significant first, so that the  *)
(* full width is kept although TLC's own integers are 32 bits wide.  A     *)
(* boost cpp_int is a sequence of base-256 digits, most significant first, *)
(* without leading zero digits (zero is the empty sequence).               *)
(***************************************************************************)
EXTENDS Integers, Sequences, FiniteSets, TLC

\* ------------------------------------------------------------ constants
MIN_CUID2_LENGTH == 4
MAX_CUID2_LENGTH == 32
DEFAULT_LENGTH == 24
PREFIX_LENGTH == 1
LOWERCASE_LETTER_COUNT == 26
BASE36_RADIX == 36
BITS_PER_BYTE == 8
COUNTER_SEED_MULTIPLIER == 476782367
\* EVP_MD_size(EVP_sha3_512()): the digest is 64 bytes.
HASH_SIZE == 64
\* sizeof(int64_t)
INT64_SIZE == 8
\* RANDOM_BYTES of generate_random_hostname
RANDOM_BYTES == 8

Byte == 0 .. 255
ByteRadix == 2 ^ BITS_PER_BYTE

\* ------------------------------------------------------------ sequences
Reverse(s) == [i \in 1 .. Len(s) |-> s[Len(s) + 1 - i]]

Fill(n, b) == [i \in 1 .. n |-> b]

\* s < t in the order of std::string::compare / std::less<> on strings:
\* byte-wise, a proper prefix sorting first.
RECURSIVE LexLess(_, _)
LexLess(s, t) ==
    IF t = <<>> THEN FALSE
    ELSE IF s = <<>> THEN TRUE
    ELSE IF Head(s) # Head(t) THEN Head(s) < Head(t)
    ELSE LexLess(Tail(s), Tail(t))

\* ------------------------------------------------------------ 64-bit integers
\* x + c modulo 2^64, the carry rippling from digit i towards digit 1.
RECURSIVE AddAt(_, _, _)
AddAt(x, i, c) ==
    IF i = 0 \/ c = 0 THEN x
    ELSE LET s == x[i] + c
         IN  AddAt([x EXCEPT ![i] = s % ByteRadix], i - 1, s \div ByteRadix)

I64Add(x, k) == AddAt(x, INT64_SIZE, k)

\* The 64-bit pattern of a small natural number.
I64FromNat(n) ==
    [i \in 1 .. INT64_SIZE |->
        IF i <= 4 THEN 0
        ELSE IF i = 5 THEN (n \div 16777216) % ByteRadix
        ELSE IF i = 6 THEN (n \div 65536) % ByteRadix
        ELSE IF i = 7 THEN (n \div 256) % ByteRadix
        ELSE n % ByteRadix]

\* Signed comparison of two int64_t values (two's complement).
I64Less(a, b) ==
    LET na == a[1] >= 128
        nb == b[1] >= 128
    IN  IF na # nb THEN na ELSE LexLess(a, b)

I64LessEq(a, b) == a = b \/ I64Less(a, b)

\* Column k (1 = least significant) of the schoolbook product of two
\* least-significant-first digit sequences.
RECURSIVE ColumnSum(_, _, _, _)
ColumnSum(xl, ml, k, i) ==
    IF i > k THEN 0 ELSE xl[i] * ml[k + 1 - i] + ColumnSum(xl, ml, k, i + 1)

RECURSIVE MulColumns(_, _, _, _, _)
MulColumns(xl, ml, k, carry, acc) ==
    IF k > INT64_SIZE THEN acc
    ELSE LET s == carry + ColumnSum(xl, ml, k, 1)
         IN  MulColumns(xl, ml, k + 1, s \div ByteRadix, Append(acc, s % ByteRadix))

\* x * m modulo 2^64: the low 64 bits of the product, which the multiply
\* instruction leaves.
I64Mul(x, m) == Reverse(MulColumns(Reverse(x), Reverse(m), 1, 0, <<>>))

\* ------------------------------------------------------------ cpp_int
\* num = (num << BITS_PER_BYTE) | BYTE
ShiftOr(num, BYTE) == IF num = <<>> /\ BYTE = 0 THEN <<>> ELSE Append(num, BYTE)

\* The for loop of encode_base36 over the bytes lo..hi of data, entered
\* with the value num.  The range is split in halves so that the evaluation
\* stays shallow; the bytes are still taken left to right (the test on
\* Len(left) only makes the left half be evaluated before the right one).
RECURSIVE FromBytes(_, _, _, _)
FromBytes(data, lo, hi, num) ==
    IF lo > hi THEN num
    ELSE IF lo = hi THEN ShiftOr(num, data[lo])
    ELSE LET mid  == (lo + hi) \div 2
             left == FromBytes(data, lo, mid, num)
         IN  IF Len(left) >= 0 THEN FromBytes(data, mid + 1, hi, left) ELSE left

\* num / d and num % d by long division, d a small positive number: the
\* digits lo..hi of num are divided with incoming remainder rem.  The
\* range is split in halves so that the evaluation stays shallow; the
\* digits are still produced one by one, left to right.
RECURSIVE LongDiv(_, _, _, _, _)
LongDiv(num, d, lo, hi, rem) ==
    IF lo > hi THEN [quot |-> <<>>, rem |-> rem]
    ELSE IF lo = hi
    THEN LET cur == rem * ByteRadix + num[lo]
         IN  [quot |-> <<cur \div d>>, rem |-> cur % d]
    ELSE LET mid   == (lo + hi) \div 2
             left  == LongDiv(num, d, lo, mid, rem)
             right == LongDiv(num, d, mid + 1, hi, left.rem)
         IN  [quot |-> left.quot \o right.quot, rem |-> right.rem]

\* A digit sequence without its leading zero digits.
Normalize(digits) ==
    LET nz == {i \in 1 .. Len(digits) : digits[i] # 0}
    IN  IF nz = {} THEN <<>>
        ELSE SubSeq(digits, CHOOSE i \in nz : \A j \in nz : i <= j, Len(digits))

DivMod(num, d) ==
    LET r == LongDiv(num, d, 1, Len(num), 0)
    IN  [quot |-> Normalize(r.quot), rem |-> r.rem]

\* ------------------------------------------------------------ utils.cpp
\* "0123456789abcdefghijklmnopqrstuvwxyz" as ASCII codes.
get_base36_chars ==
    [i \in 1 .. BASE36_RADIX |-> IF i <= 10 THEN 47 + i ELSE 86 + i]

IsDigitChar(c) == c \in 48 .. 57
IsLowerChar(c) == c \in 97 .. 122
IsBase36Char(c) == IsDigitChar(c) \/ IsLowerChar(c)

\* Faulty variant of prefix_from_byte: the byte reduced modulo the radix
\* of the alphabet instead of the number of letters.
prefix_from_byte_ModRadix(random_byte) == 97 + (random_byte % BASE36_RADIX)

\* Faulty variant of prefix_from_byte: the letters counted down from 'z'.
prefix_from_byte_FromTop(random_byte) == 122 - (random_byte % LOWERCASE_LETTER_COUNT)

\* 'a' + (random_byte % LOWERCASE_LETTER_COUNT)
prefix_from_byte(random_byte) == 97 + (random_byte % LOWERCASE_LETTER_COUNT)

\* One iteration of the while (num > 0) loop of encode_base36:
\* REMAINDER = num % 36 is pushed back as a character, num /= 36.
Base36Step(st) ==
    LET dm == DivMod(st.num, BASE36_RADIX)
    IN  [num |-> dm.quot, result |-> Append(st.result, get_base36_chars[dm.rem + 1])]

\* The loop, cut off after n iterations (n is split in halves so that the
\* evaluation stays shallow; the iterations still run one after another).
RECURSIVE Base36Run(_, _)
Base36Run(st, n) ==
    IF n = 0 \/ st.num = <<>> THEN st
    ELSE IF n = 1 THEN Base36Step(st)
    ELSE Base36Run(Base36Run(st, n \div 2), n - (n \div 2))

\* The loop run until num = 0.  A number of k base-256 digits has fewer
\* than 2 * k base-36 digits, so 2 * k iterations always reach num = 0:
\* the characters come out least significant first.
Base36Loop(num) == Base36Run([num |-> num, result |-> <<>>], 2 * Len(num)).result

\* Faulty variant of encode_base36: a fixed-width encoding, in which every
\* leading zero byte of the input gives a leading '0'.
RECURSIVE LeadingZeroBytes(_)
LeadingZeroBytes(data) ==
    IF data = <<>> \/ Head(data) # 0 THEN 0 ELSE 1 + LeadingZeroBytes(Tail(data))

encode_base36_FixedWidth(data) ==
    IF data = <<>> THEN <<48>>
    ELSE LET num == FromBytes(data, 1, Len(data), <<>>)
         IN  Fill(LeadingZeroBytes(data), 48)
                 \o (IF num = <<>> THEN <<48>> ELSE Reverse(Base36Loop(num)))

\* Faulty variant of encode_base36: the final std::ranges::reverse left out.
encode_base36_NotReversed(data) ==
    IF data = <<>> THEN <<48>>
    ELSE LET num == FromBytes(data, 1, Len(data), <<>>)
         IN  IF num = <<>> THEN <<48>> ELSE Base36Loop(num)

encode_base36(data) ==
    IF data = <<>> THEN <<48>>
    ELSE LET num == FromBytes(data, 1, Len(data), <<>>)
         IN  IF num = <<>> THEN <<48>> ELSE Reverse(Base36Loop(num))

\* ------------------------------------------------------------ platform.cpp
\* Faulty variant of HexChar: upper-case digits ({:02X}).
HexChar_UpperCase(v) == IF v < 10 THEN 48 + v ELSE 55 + v

\* "0123456789abcdef" as ASCII codes: the digits of fmt's {:02x}.
HexChar(v) == IF v < 10 THEN 48 + v ELSE 87 + v

\* generate_random_hostname: the 8 random bytes, each as two hex digits.
RECURSIVE HexOf(_)
HexOf(bytes) ==
    IF bytes = <<>> THEN <<>>
    ELSE <<HexChar(Head(bytes) \div 16), HexChar(Head(bytes) % 16)>> \o HexOf(Tail(bytes))

generate_random_hostname(random_bytes) == HexOf(random_bytes)

\* A char buffer read as a C string: the bytes before the first NUL.
CString(buf) ==
    LET nul == {i \in 1 .. Len(buf) : buf[i] = 0}
    IN  IF nul = {} THEN buf
        ELSE SubSeq(buf, 1, (CHOOSE i \in nul : \A j \in nul : i <= j) - 1)

\* get_hostname: gethostname()'s answer when it succeeds, the random hex
\* string otherwise.
get_hostname(ok, name, random_bytes) ==
    IF ok THEN CString(name) ELSE generate_random_hostname(random_bytes)

\* std::strchr(entry, '='): the index of the first '=' (ASCII 61), 0 if none.
StrChrEq(entry) ==
    LET eq == {i \in 1 .. Len(entry) : entry[i] = 61}
    IN  IF eq = {} THEN 0 ELSE CHOOSE i \in eq : \A j \in eq : i <= j

HasKey(env_vars, key) == \E i \in 1 .. Len(env_vars) : env_vars[i].key = key

\* Faulty variant of try_emplace: the pair is put at the end (a vector in
\* place of the ordered map).
try_emplace_AtEnd(env_vars, key, value) ==
    IF HasKey(env_vars, key) THEN env_vars
    ELSE Append(env_vars, [key |-> key, value |-> value])

\* Faulty variant of try_emplace: insert_or_assign, a later value replaces
\* the one stored.
try_emplace_InsertOrAssign(env_vars, key, value) ==
    LET below == SelectSeq(env_vars, LAMBDA e : LexLess(e.key, key))
        above == SelectSeq(env_vars, LAMBDA e : LexLess(key, e.key))
    IN  below \o <<[key |-> key, value |-> value]>> \o above

\* std::map::try_emplace on a map kept as the sequence of its pairs in
\* ascending key order: an existing key keeps its value.
try_emplace(env_vars, key, value) ==
    IF HasKey(env_vars, key) THEN env_vars
    ELSE LET below == SelectSeq(env_vars, LAMBDA e : LexLess(e.key, key))
             above == SelectSeq(env_vars, LAMBDA e : LexLess(key, e.key))
         IN  below \o <<[key |-> key, value |-> value]>> \o above

\* get_environment_variables (POSIX): the loop over environ.
RECURSIVE EnvLoop(_, _, _)
EnvLoop(envp, i, env_vars) ==
    IF i > Len(envp) THEN env_vars
    ELSE LET delimiter == StrChrEq(envp[i])
         IN  EnvLoop(envp, i + 1,
                 IF delimiter # 0
                 THEN try_emplace(env_vars,
                                  SubSeq(envp[i], 1, delimiter - 1),
                                  SubSeq(envp[i], delimiter + 1, Len(envp[i])))
                 ELSE env_vars)

get_environment_variables(envp) == EnvLoop(envp, 1, <<>>)

\* ------------------------------------------------------------ fingerprint.cpp
\* Faulty variant of PidBytes: the four bytes in big-endian order.
PidBytes_BigEndian(PROCESS_ID) ==
    <<(PROCESS_ID \div 16777216) % ByteRadix, (PROCESS_ID \div 65536) % ByteRadix,
      (PROCESS_ID \div 256) % ByteRadix, PROCESS_ID % ByteRadix>>

\* static_cast<uint32_t>(PROCESS_ID) in little-endian byte order.
PidBytes(PROCESS_ID) ==
    <<PROCESS_ID % ByteRadix, (PROCESS_ID \div 256) % ByteRadix,
      (PROCESS_ID \div 65536) % ByteRadix, (PROCESS_ID \div 16777216) % ByteRadix>>

RECURSIVE EnvString(_)
EnvString(env_vars) ==
    IF env_vars = <<>> THEN <<>>
    ELSE Head(env_vars).key \o <<61>> \o Head(env_vars).value \o EnvString(Tail(env_vars))

\* generate() of fingerprint.cpp: hostname, pid, key=value pairs.
FingerprintGenerate(hostname, PROCESS_ID, env_vars) ==
    hostname \o PidBytes(PROCESS_ID) \o EnvString(env_vars)

\* ------------------------------------------------------------ counter.cpp
\* generate_initial_counter_value: the 8 random bytes are assembled least
\* significant first (seed |= BYTE << shift), then multiplied.
SeedOf(bytes) == Reverse(bytes)

\* The magnitude of an int64_t, as an unsigned 64-bit pattern.
I64Magnitude(x) ==
    IF x[1] >= 128 THEN I64Add([k \in 1 .. INT64_SIZE |-> 255 - x[k]], 1) ELSE x

\* All 16 digits of the schoolbook product, least significant first.
RECURSIVE WideColumns(_, _, _, _, _)
WideColumns(xl, ml, k, carry, acc) ==
    IF k > 2 * INT64_SIZE THEN acc
    ELSE LET s == carry + ColumnSum(xl, ml, k, 1)
         IN  WideColumns(xl, ml, k + 1, s \div ByteRadix, Append(acc, s % ByteRadix))

\* The product of the int64_t x and the non-negative int64_t m is not a
\* value of int64_t: its magnitude exceeds 2^63 - 1 (2^63 if x is negative).
I64MulOverflows(x, m) ==
    LET pad   == Fill(INT64_SIZE, 0)
        wide  == Reverse(WideColumns(Reverse(I64Magnitude(x)) \o pad,
                                     Reverse(m) \o pad, 1, 0, <<>>))
        limit == IF x[1] >= 128
                 THEN pad \o <<128, 0, 0, 0, 0, 0, 0, 0>>
                 ELSE pad \o <<127, 255, 255, 255, 255, 255, 255, 255>>
    IN  LexLess(limit, wide)

\* return seed * COUNTER_SEED_MULTIPLIER; both operands are int64_t.  When
\* the product overflows the behaviour is undefined: the build returns the
\* low 64 bits of the product, or, compiled to trap on signed overflow, ends
\* the process.
generate_initial_counter_value(bytes) ==
    LET seed    == SeedOf(bytes)
        product == I64Mul(seed, I64FromNat(COUNTER_SEED_MULTIPLIER))
    IN  IF I64MulOverflows(seed, I64FromNat(COUNTER_SEED_MULTIPLIER))
        THEN { [kind |-> "value", value_ |-> product],
               [kind |-> "trap", value_ |-> Fill(INT64_SIZE, 0)] }
        ELSE { [kind |-> "value", value_ |-> product] }

\* Faulty variants of the increment: a step of two, a lost update (the
\* stored value left as it was), and the new value returned in place of
\* the previous one (add_fetch).
FetchAddStored_StepTwo(value) == I64Add(value, 2)

FetchAddStored_LostUpdate(value) == value

FetchAddReturned_NewValue(value) == I64Add(value, 1)

\* Two more faulty variants of the increment: a decrement (fetch_sub), and
\* an increment that stops at the largest value.
FetchAddStored_Decrement(value) == I64Add(value, -1)

FetchAddStored_Saturating(value) ==
    IF value = <<127, 255, 255, 255, 255, 255, 255, 255>> THEN value
    ELSE I64Add(value, 1)

\* std::atomic<int64_t>::fetch_add(1): the value stored, the value returned.
FetchAddStored(value) == I64Add(value, 1)

FetchAddReturned(value) == value

\* ------------------------------------------------------------ cuid2.cpp
\* Faulty variant of serialize_int64_le: the bytes in big-endian order.
serialize_int64_le_BigEndian(VALUE) == VALUE

\* serialize_int64_le: the 8 bytes of the value, least significant first.
serialize_int64_le(VALUE) == Reverse(VALUE)

\* Faulty variant of validate_length: the lower limit off by one.
validate_length_OffByOne(MAX_LENGTH) ==
    ~(MAX_LENGTH < MIN_CUID2_LENGTH - 1 \/ MAX_LENGTH > MAX_CUID2_LENGTH)

validate_length(MAX_LENGTH) ==
    ~(MAX_LENGTH < MIN_CUID2_LENGTH \/ MAX_LENGTH > MAX_CUID2_LENGTH)

\* Faulty variant of build_hash_input: the timestamp serialised twice.
build_hash_input_TimestampTwice(TIMESTAMP, COUNTER, fingerprint, random_bytes) ==
    serialize_int64_le(TIMESTAMP) \o serialize_int64_le(TIMESTAMP) \o fingerprint
        \o random_bytes

build_hash_input(TIMESTAMP, COUNTER, fingerprint, random_bytes) ==
    serialize_int64_le(TIMESTAMP) \o serialize_int64_le(COUNTER)
        \o fingerprint \o random_bytes

\* fmt's "{}" for an int: the decimal digits, after '-' for a negative value.
RECURSIVE DecimalDigits(_)
DecimalDigits(n) ==
    IF n < 10 THEN <<48 + n>> ELSE Append(DecimalDigits(n \div 10), 48 + (n % 10))

Decimal(n) == IF n < 0 THEN <<45>> \o DecimalDigits(-n) ELSE DecimalDigits(n)

\* Faulty variant of the message: the lower limit formatted twice.
InvalidArgumentMessage_LowerTwice ==
    <<77, 65, 88, 95, 76, 69, 78, 71, 84, 72>>
        \o Decimal(MIN_CUID2_LENGTH) \o <<32>> \o Decimal(MIN_CUID2_LENGTH)

\* what() of the std::invalid_argument validate_length throws:
\* fmt::format("MAX_LENGTH must be between {} and {}", MIN_CUID2_LENGTH,
\* MAX_CUID2_LENGTH).
InvalidArgumentMessage ==
    <<77, 65, 88, 95, 76, 69, 78, 71, 84, 72, 32, 109, 117, 115, 116, 32,
      98, 101, 32, 98, 101, 116, 119, 101, 101, 110, 32>>
        \o Decimal(MIN_CUID2_LENGTH) \o <<32, 97, 110, 100, 32>> \o Decimal(MAX_CUID2_LENGTH)

\* compute_hash.  evp tells which of OpenSSL's calls succeed (EVP_MD_CTX_new
\* returns a context, EVP_DigestInit_ex, EVP_DigestUpdate and
\* EVP_DigestFinal_ex return 1), digest is what SHA3-512 writes: the first
\* call that fails throws Cuid2Error with its message, otherwise the digest
\* is returned.
\* "Failed to create SHA-3(512) hash context"
FailedToCreate ==
    <<70, 97, 105, 108, 101, 100, 32, 116, 111, 32, 99, 114, 101, 97, 116,
      101, 32, 83, 72, 65, 45, 51, 40, 53, 49, 50, 41, 32, 104, 97, 115,
      104, 32, 99, 111, 110, 116, 101, 120, 116>>
\* "Failed to initialize SHA-3(512) hash"
FailedToInitialize ==
    <<70, 97, 105, 108, 101, 100, 32, 116, 111, 32, 105, 110, 105, 116,
      105, 97, 108, 105, 122, 101, 32, 83, 72, 65, 45, 51, 40, 53, 49, 50,
      41, 32, 104, 97, 115, 104>>
\* "Failed to update SHA-3(512) hash"
FailedToUpdate ==
    <<70, 97, 105, 108, 101, 100, 32, 116, 111, 32, 117, 112, 100, 97, 116,
      101, 32, 83, 72, 65, 45, 51, 40, 53, 49, 50, 41, 32, 104, 97, 115,
      104>>
\* "Failed to finalize SHA-3(512) hash"
FailedToFinalize ==
    <<70, 97, 105, 108, 101, 100, 32, 116, 111, 32, 102, 105, 110, 97, 108,
      105, 122, 101, 32, 83, 72, 65, 45, 51, 40, 53, 49, 50, 41, 32, 104,
      97, 115, 104>>

Cuid2Error(message) == [kind |-> "CryptoFailure", what |-> message, hash_output |-> <<>>]

compute_hash(evp, digest) ==
    IF ~evp.new THEN Cuid2Error(FailedToCreate)
    ELSE IF ~evp.init THEN Cuid2Error(FailedToInitialize)
    ELSE IF ~evp.update THEN Cuid2Error(FailedToUpdate)
    ELSE IF ~evp.final THEN Cuid2Error(FailedToFinalize)
    ELSE [kind |-> "ok", what |-> <<>>, hash_output |-> digest]

\* Faulty variant of format_result: MAX_LENGTH characters of ENCODED taken.
format_result_OneTooMany(PREFIX, ENCODED, MAX_LENGTH) ==
    IF Len(ENCODED) >= MAX_LENGTH
    THEN <<PREFIX>> \o SubSeq(ENCODED, 1, MAX_LENGTH)
    ELSE <<PREFIX>> \o ENCODED

\* format_result, called with a validated MAX_LENGTH.
format_result(PREFIX, ENCODED, MAX_LENGTH) ==
    LET NEEDED_LENGTH == MAX_LENGTH - PREFIX_LENGTH
    IN  IF Len(ENCODED) >= NEEDED_LENGTH
        THEN <<PREFIX>> \o SubSeq(ENCODED, 1, NEEDED_LENGTH)
        ELSE <<PREFIX>> \o ENCODED

\* ------------------------------------------------------------ bounds
\* Calls (generate, Counter::next, Fingerprint::get) begun in one run.
MaxCalls == 2
\* Moves of the platform in one run: a step of the system clock (forwards or
\* backwards), a change of the hostname or of the environment table.
MaxPlatformEvents == 1

\* The initial thread runs the static initialisers and main(); the other
\* threads exist once main() has been entered.
MainThread == "main"
Threads == {"main", "worker"}

\* Lengths a caller passes to generate().
LengthSamples == {-1, 3, 4, 32, 33}

\* Values the entropy source can deliver (samples of RAND_bytes' output).  The
\* draws of different calls may coincide, and coinciding draws are the hard
\* case for every property of uniqueness.
RandomByteSamples == {171}
\* Faulty variant of the draw: one byte more than asked for.
RandomBytes_OneMore(n) == {Fill(n + 1, b) : b \in RandomByteSamples}

RandomBytes(n) == {Fill(n, b) : b \in RandomByteSamples}

\* 8-byte draws for a counter seed: the ones whose seeds are -1 (all bits
\* set) and INT64_MAX, next to which the 64-bit value wraps.
SeedDrawSamples ==
    { <<33, 99, 216, 121, 57, 53, 18, 159>>,
      <<33, 99, 216, 121, 57, 53, 18, 31>> }

\* Bytes the prefix draw can deliver: 0 -> 'a', 25 -> 'z', 26 -> 'a'.
PrefixByteSamples == {0, 25, 26}

\* Digests SHA3-512 can return (samples of its 2^512 outputs): zero, the
\* largest value and its predecessor.
DigestSamples ==
    { Fill(HASH_SIZE, 0),
      Fill(HASH_SIZE, 255),
      Fill(HASH_SIZE - 1, 255) \o <<254>> }

\* What OpenSSL's four EVP calls of one compute_hash do: all succeed, or one
\* of them is the first to fail.
EvpAllSucceed == [new |-> TRUE, init |-> TRUE, update |-> TRUE, final |-> TRUE]
EvpFailures ==
    { [EvpAllSucceed EXCEPT !.new = FALSE],
      [EvpAllSucceed EXCEPT !.init = FALSE],
      [EvpAllSucceed EXCEPT !.update = FALSE],
      [EvpAllSucceed EXCEPT !.final = FALSE] }

\* System clock readings: 100 ns ticks since the epoch.
ClockStart == <<0, 60, 101, 104, 241, 46, 128, 0>>

\* What gethostname() can report, and the environment tables.
HostnameSamples == {<<104, 49, 0>>, <<104, 50, 0>>}
EnvironSamples ==
    { << <<66, 61, 49>>, <<65, 61, 120>> >>,
      << <<65, 61, 120>>, <<66, 61, 50>>, <<67>> >> }
PidSample == 4660
HostnameAtStart == <<104, 49, 0>>
EnvironAtStart == << <<66, 61, 49>>, <<65, 61, 120>> >>

\* ------------------------------------------------------------ state
VARIABLES
    mainEntered,            \* main() has been entered (static initialisation is over)
    Counter_instance_,      \* inline Counter Counter::instance_{} (counter.hpp)
    instance,               \* static Counter instance; of Counter::instance()
    Fingerprint_instance_,  \* inline Fingerprint Fingerprint::instance_{}
    now,                    \* std::chrono::system_clock, in ticks
    hostname,               \* the name gethostname() reports
    environ,                \* extern char **environ
    thr,                    \* per thread: position in its call and its locals
    calls,                  \* history: the completed calls, in order of completion
    returned,               \* history: fetch_add's results, in order of effect
    entropy,                \* history: number of random bytes drawn so far
    seedComputations,       \* history: runs of generate_initial_counter_value
    fpComputations,         \* history: runs of fingerprint.cpp's generate()
    nCalls, platformEvents,
    clockSetBacks,          \* history: backwards adjustments of the system clock
    probe                   \* result of the pipeline applied to chosen inputs

vars == <<mainEntered, Counter_instance_, instance, Fingerprint_instance_, now,
          hostname, environ, thr, calls, returned, entropy, seedComputations,
          fpComputations, nCalls, platformEvents, clockSetBacks, probe>>

counterVars == <<Counter_instance_, instance, returned, seedComputations>>
platformVars == <<now, hostname, environ, platformEvents, clockSetBacks>>
machineVars == <<mainEntered, counterVars, Fingerprint_instance_, platformVars, thr,
                 calls, entropy, fpComputations, nCalls>>

I64Zero == Fill(INT64_SIZE, 0)

Idle ==
    [pc |-> "idle", op |-> "none", len |-> 0, ts |-> I64Zero, ctr |-> I64Zero,
     ord |-> 0, rnd |-> <<>>, prefix |-> 0, began |-> 0]

\* Objects of static storage duration are zero-initialised before their
\* constructors run: an atomic holding 0, an empty vector.
Init ==
    /\ mainEntered = FALSE
    /\ Counter_instance_ = [constructed |-> FALSE, value_ |-> I64Zero]
    /\ instance = [guard |-> "uninit", value_ |-> I64Zero]
    /\ Fingerprint_instance_ = [constructed |-> FALSE, cached_value_ |-> <<>>]
    /\ now = ClockStart
    /\ hostname = HostnameAtStart
    /\ environ = EnvironAtStart
    /\ thr = [t \in Threads |-> Idle]
    /\ calls = <<>>
    /\ returned = <<>>
    /\ entropy = 0
    /\ seedComputations = 0
    /\ fpComputations = 0
    /\ nCalls = 0
    /\ platformEvents = 0
    /\ clockSetBacks = 0
    /\ probe = [fn |-> "none"]

\* The process is ended (a trap): no thread takes another step.
Terminated == [u \in Threads |-> [thr[u] EXCEPT !.pc = "terminated"]]

\* ------------------------------------------------------------ history records
CallRecord(t, op, len, outcome) ==
    [thread |-> t, op |-> op, len |-> len, outcome |-> outcome, what |-> <<>>,
     ts |-> I64Zero, ctr |-> I64Zero, ord |-> 0, rnd |-> <<>>, input |-> <<>>,
     id |-> <<>>,
     fp |-> <<>>, fpBuilt |-> FALSE, began |-> Len(calls)]

\* The base-36 text of each sample digest.
EncodedSample == [d \in DigestSamples |-> encode_base36(d)]

\* ------------------------------------------------------------ static initialisation
\* Counter::Counter() for Counter::instance_, run before main().
StaticInitCounter ==
    /\ ~mainEntered
    /\ thr[MainThread].pc = "idle"
    /\ ~Counter_instance_.constructed
    /\ \E bytes \in SeedDrawSamples :
           \E initial \in generate_initial_counter_value(bytes) :
               IF initial.kind = "value"
               THEN /\ Counter_instance_' =
                           [constructed |-> TRUE, value_ |-> initial.value_]
                    /\ thr' = thr
               ELSE /\ Counter_instance_' = Counter_instance_
                    /\ thr' = Terminated
    /\ entropy' = entropy + INT64_SIZE
    /\ seedComputations' = seedComputations + 1
    /\ UNCHANGED <<mainEntered, instance, Fingerprint_instance_, platformVars,
                   calls, returned, fpComputations, nCalls, probe>>

\* Fingerprint::Fingerprint() for Fingerprint::instance_, run before main():
\* cached_value_{generate()}.
StaticInitFingerprint ==
    /\ ~mainEntered
    /\ thr[MainThread].pc = "idle"
    /\ ~Fingerprint_instance_.constructed
    /\ \/ /\ Fingerprint_instance_' =
                [constructed |-> TRUE,
                 cached_value_ |->
                     FingerprintGenerate(get_hostname(TRUE, hostname, <<>>), PidSample,
                                         get_environment_variables(environ))]
          /\ entropy' = entropy
       \/ /\ \E bytes \in RandomBytes(RANDOM_BYTES) :
                Fingerprint_instance_' =
                    [constructed |-> TRUE,
                     cached_value_ |->
                         FingerprintGenerate(get_hostname(FALSE, hostname, bytes), PidSample,
                                             get_environment_variables(environ))]
          /\ entropy' = entropy + RANDOM_BYTES
    /\ fpComputations' = fpComputations + 1
    /\ UNCHANGED <<mainEntered, counterVars, platformVars, thr, calls, nCalls, probe>>

\* Static initialisation is complete and main() starts.
EnterMain ==
    /\ ~mainEntered
    /\ thr[MainThread].pc = "idle"
    /\ Counter_instance_.constructed
    /\ Fingerprint_instance_.constructed
    /\ mainEntered' = TRUE
    /\ UNCHANGED <<counterVars, Fingerprint_instance_, platformVars, thr, calls,
                   entropy, fpComputations, nCalls, probe>>

\* ------------------------------------------------------------ calls
\* Thread t may begin a call: before main() only the initial thread runs
\* (an initialiser of another translation unit calling into the library).
CanCall(t) ==
    /\ thr[t].pc = "idle"
    /\ nCalls < MaxCalls
    /\ mainEntered \/ t = MainThread

\* generate(MAX_LENGTH): validate_length, which throws std::invalid_argument.
GenerateEnter(t) ==
    /\ CanCall(t)
    /\ \E len \in LengthSamples :
           IF validate_length(len)
           THEN /\ thr' = [thr EXCEPT ![t] =
                               [Idle EXCEPT !.pc = "timestamp", !.op = "generate",
                                            !.len = len, !.began = Len(calls)]]
                /\ calls' = calls
           ELSE /\ calls' = Append(calls,
                       [CallRecord(t, "generate", len, "InvalidArgument") EXCEPT
                            !.what = InvalidArgumentMessage])
                /\ thr' = thr
    /\ nCalls' = nCalls + 1
    /\ UNCHANGED <<mainEntered, counterVars, Fingerprint_instance_, platformVars,
                   entropy, fpComputations, probe>>

\* Faulty variant of the timestamp step: the negated reading is kept.
ReadTimestamp_Negated(t) ==
    /\ thr[t].pc = "timestamp"
    /\ thr' = [thr EXCEPT
                   ![t].ts = I64Add([k \in 1 .. INT64_SIZE |-> 255 - now[k]], 1),
                   ![t].pc = "counter_instance"]
    /\ UNCHANGED <<mainEntered, counterVars, Fingerprint_instance_, platformVars, calls,
                   entropy, fpComputations, nCalls, probe>>

\* const int64_t TIMESTAMP = utils::get_timestamp_ticks();
ReadTimestamp(t) ==
    /\ thr[t].pc = "timestamp"
    /\ thr' = [thr EXCEPT ![t].ts = now, ![t].pc = "counter_instance"]
    /\ UNCHANGED <<mainEntered, counterVars, Fingerprint_instance_, platformVars, calls,
                   entropy, fpComputations, nCalls, probe>>

\* A direct call of Counter::next().
NextEnter(t) ==
    /\ CanCall(t)
    /\ thr' = [thr EXCEPT ![t] =
                   [Idle EXCEPT !.pc = "counter_instance", !.op = "next",
                                !.began = Len(calls)]]
    /\ nCalls' = nCalls + 1
    /\ UNCHANGED <<mainEntered, counterVars, Fingerprint_instance_, platformVars, calls,
                   entropy, fpComputations, probe>>

\* Counter::instance(): the guarded initialisation of the local static.  A
\* thread finding the initialisation running waits for it.
CounterInstance(t) ==
    /\ thr[t].pc = "counter_instance"
    /\ \/ /\ instance.guard = "done"
          /\ thr' = [thr EXCEPT ![t].pc = "fetch_add"]
          /\ instance' = instance
       \/ /\ instance.guard = "uninit"
          /\ instance' = [instance EXCEPT !.guard = "running"]
          /\ thr' = [thr EXCEPT ![t].pc = "counter_ctor"]
    /\ UNCHANGED <<mainEntered, Counter_instance_, returned, seedComputations,
                   Fingerprint_instance_, platformVars, calls, entropy, fpComputations,
                   nCalls, probe>>

\* Counter::Counter() for the local static: value_{generate_initial_counter_value()}.
CounterCtor(t) ==
    /\ thr[t].pc = "counter_ctor"
    /\ \E bytes \in SeedDrawSamples :
           \E initial \in generate_initial_counter_value(bytes) :
               IF initial.kind = "value"
               THEN /\ instance' = [guard |-> "done", value_ |-> initial.value_]
                    /\ thr' = [thr EXCEPT ![t].pc = "fetch_add"]
               ELSE /\ instance' = instance
                    /\ thr' = Terminated
    /\ entropy' = entropy + INT64_SIZE
    /\ seedComputations' = seedComputations + 1
    /\ UNCHANGED <<mainEntered, Counter_instance_, returned, Fingerprint_instance_,
                   platformVars, calls, fpComputations, nCalls, probe>>

\* instance().value_.fetch_add(1); a direct Counter::next() returns here.
FetchAdd(t) ==
    /\ thr[t].pc = "fetch_add"
    /\ instance' = [instance EXCEPT !.value_ = FetchAddStored(instance.value_)]
    /\ returned' = Append(returned, FetchAddReturned(instance.value_))
    /\ IF thr[t].op = "next"
       THEN /\ calls' = Append(calls,
                   [CallRecord(t, "next", 0, "ok") EXCEPT
                        !.ctr = FetchAddReturned(instance.value_),
                        !.ord = Len(returned) + 1,
                        !.began = thr[t].began])
            /\ thr' = [thr EXCEPT ![t] = Idle]
       ELSE /\ calls' = calls
            /\ thr' = [thr EXCEPT ![t].ctr = FetchAddReturned(instance.value_),
                                  ![t].ord = Len(returned) + 1,
                                  ![t].pc = "fingerprint"]
    /\ UNCHANGED <<mainEntered, Counter_instance_, seedComputations,
                   Fingerprint_instance_, platformVars, entropy, fpComputations,
                   nCalls, probe>>

\* const auto& fingerprint = Fingerprint::get(); binds a reference to
\* instance_.cached_value_ (the bytes are read by build_hash_input).
BindFingerprint(t) ==
    /\ thr[t].pc = "fingerprint"
    /\ thr' = [thr EXCEPT ![t].pc = "random_bytes"]
    /\ UNCHANGED <<mainEntered, counterVars, Fingerprint_instance_, platformVars, calls,
                   entropy, fpComputations, nCalls, probe>>

\* platform::get_random_bytes(random_bytes.data(), MAX_LENGTH);
DrawRandomBytes(t) ==
    /\ thr[t].pc = "random_bytes"
    /\ \E bytes \in RandomBytes(thr[t].len) :
           thr' = [thr EXCEPT ![t].rnd = bytes, ![t].pc = "prefix"]
    /\ entropy' = entropy + thr[t].len
    /\ UNCHANGED <<mainEntered, counterVars, Fingerprint_instance_, platformVars, calls,
                   fpComputations, nCalls, probe>>

\* const char PREFIX = utils::generate_prefix();
DrawPrefix(t) ==
    /\ thr[t].pc = "prefix"
    /\ \E random_byte \in PrefixByteSamples :
           thr' = [thr EXCEPT ![t].prefix = prefix_from_byte(random_byte),
                              ![t].pc = "hash"]
    /\ entropy' = entropy + 1
    /\ UNCHANGED <<mainEntered, counterVars, Fingerprint_instance_, platformVars, calls,
                   fpComputations, nCalls, probe>>

\* Faulty variant of the last step: a call whose hash fails gives its counter
\* value back (the stored value is decremented before Cuid2Error is thrown).
HashAndFormat_GivesBack(t) ==
    /\ thr[t].pc = "hash"
    /\ LET me    == thr[t]
           fp    == Fingerprint_instance_.cached_value_
           base  == [CallRecord(t, "generate", me.len, "ok") EXCEPT
                         !.ts = me.ts, !.ctr = me.ctr, !.ord = me.ord,
                         !.rnd = me.rnd,
                         !.input = build_hash_input(me.ts, me.ctr, fp, me.rnd),
                         !.fp = fp,
                         !.fpBuilt = Fingerprint_instance_.constructed,
                         !.began = me.began]
       IN  \/ /\ \E d \in DigestSamples :
                    calls' = Append(calls,
                        [base EXCEPT !.id = format_result(me.prefix,
                                                EncodedSample[d], me.len)])
              /\ instance' = instance
           \/ /\ \E evp \in EvpFailures :
                    LET thrown == compute_hash(evp, <<>>)
                    IN  calls' = Append(calls,
                            [base EXCEPT !.outcome = thrown.kind, !.what = thrown.what])
              /\ instance' = [instance EXCEPT !.value_ = I64Add(instance.value_, -1)]
    /\ thr' = [thr EXCEPT ![t] = Idle]
    /\ UNCHANGED <<mainEntered, Counter_instance_, returned, seedComputations,
                   Fingerprint_instance_, platformVars, entropy, fpComputations,
                   nCalls, probe>>

\* build_hash_input, compute_hash, encode_base36, format_result and the
\* return.  SHA3-512 is OpenSSL's: its digest is any of the samples, or an
\* EVP call fails and Cuid2Error is thrown.
HashAndFormat(t) ==
    /\ thr[t].pc = "hash"
    /\ LET me    == thr[t]
           fp    == Fingerprint_instance_.cached_value_
           base  == [CallRecord(t, "generate", me.len, "ok") EXCEPT
                         !.ts = me.ts, !.ctr = me.ctr, !.ord = me.ord,
                         !.rnd = me.rnd,
                         !.input = build_hash_input(me.ts, me.ctr, fp, me.rnd),
                         !.fp = fp,
                         !.fpBuilt = Fingerprint_instance_.constructed,
                         !.began = me.began]
       IN  \/ \E d \in DigestSamples :
                  LET HASH_OUTPUT == compute_hash(EvpAllSucceed, d).hash_output
                  IN  calls' = Append(calls,
                          [base EXCEPT !.id = format_result(me.prefix,
                                                  EncodedSample[HASH_OUTPUT], me.len)])
           \/ \E evp \in EvpFailures :
                  LET thrown == compute_hash(evp, <<>>)
                  IN  calls' = Append(calls,
                          [base EXCEPT !.outcome = thrown.kind, !.what = thrown.what])
    /\ thr' = [thr EXCEPT ![t] = Idle]
    /\ UNCHANGED <<mainEntered, counterVars, Fingerprint_instance_, platformVars,
                   entropy, fpComputations, nCalls, probe>>

\* Faulty variant of Fingerprint::get(): the bytes are built at every call.
FingerprintGet_Rebuilds(t) ==
    /\ CanCall(t)
    /\ calls' = Append(calls,
           [CallRecord(t, "get", 0, "ok") EXCEPT
                !.fp = FingerprintGenerate(get_hostname(TRUE, hostname, <<>>), PidSample,
                                           get_environment_variables(environ)),
                !.fpBuilt = Fingerprint_instance_.constructed])
    /\ nCalls' = nCalls + 1
    /\ UNCHANGED <<mainEntered, counterVars, Fingerprint_instance_, platformVars, thr,
                   entropy, fpComputations, probe>>

\* A direct call of Fingerprint::get(): return instance_.cached_value_;
FingerprintGet(t) ==
    /\ CanCall(t)
    /\ calls' = Append(calls,
           [CallRecord(t, "get", 0, "ok") EXCEPT
                !.fp = Fingerprint_instance_.cached_value_,
                !.fpBuilt = Fingerprint_instance_.constructed])
    /\ nCalls' = nCalls + 1
    /\ UNCHANGED <<mainEntered, counterVars, Fingerprint_instance_, platformVars, thr,
                   entropy, fpComputations, probe>>

\* ------------------------------------------------------------ the platform moves
\* system_clock advances by a tick, or is set back by one (an adjustment).
ClockTick ==
    /\ platformEvents < MaxPlatformEvents
    /\ now' = I64Add(now, 1)
    /\ platformEvents' = platformEvents + 1
    /\ UNCHANGED <<mainEntered, counterVars, Fingerprint_instance_, hostname, environ,
                   clockSetBacks, thr, calls, entropy, fpComputations, nCalls, probe>>

ClockSetBack ==
    /\ platformEvents < MaxPlatformEvents
    /\ now' = I64Add(now, -1)
    /\ platformEvents' = platformEvents + 1
    /\ clockSetBacks' = clockSetBacks + 1
    /\ UNCHANGED <<mainEntered, counterVars, Fingerprint_instance_, hostname, environ,
                   thr, calls, entropy, fpComputations, nCalls, probe>>

\* The host is renamed, or the environment table is rewritten (setenv).
SetHostname ==
    /\ platformEvents < MaxPlatformEvents
    /\ \E h \in HostnameSamples \ {hostname} : hostname' = h
    /\ platformEvents' = platformEvents + 1
    /\ UNCHANGED <<mainEntered, counterVars, Fingerprint_instance_, now, environ,
                   clockSetBacks, thr, calls, entropy, fpComputations, nCalls, probe>>

SetEnviron ==
    /\ platformEvents < MaxPlatformEvents
    /\ \E e \in EnvironSamples \ {environ} : environ' = e
    /\ platformEvents' = platformEvents + 1
    /\ UNCHANGED <<mainEntered, counterVars, Fingerprint_instance_, now, hostname,
                   clockSetBacks, thr, calls, entropy, fpComputations, nCalls, probe>>

\* ------------------------------------------------------------ specification
Next ==
    \/ StaticInitCounter
    \/ StaticInitFingerprint
    \/ EnterMain
    \/ \E t \in Threads : GenerateEnter(t)
    \/ \E t \in Threads : ReadTimestamp(t)
    \/ \E t \in Threads : NextEnter(t)
    \/ \E t \in Threads : CounterInstance(t)
    \/ \E t \in Threads : CounterCtor(t)
    \/ \E t \in Threads : FetchAdd(t)
    \/ \E t \in Threads : BindFingerprint(t)
    \/ \E t \in Threads : DrawRandomBytes(t)
    \/ \E t \in Threads : DrawPrefix(t)
    \/ \E t \in Threads : HashAndFormat(t)
    \/ \E t \in Threads : FingerprintGet(t)
    \/ ClockTick
    \/ ClockSetBack
    \/ SetHostname
    \/ SetEnviron

Spec == Init /\ [][Next]_vars

\* ------------------------------------------------------------ the pipeline on chosen inputs
\* generate()'s pure steps applied to one chosen length, prefix byte and
\* digest: validate_length, prefix_from_byte, encode_base36, format_result.
ProbeLengths == (MIN_CUID2_LENGTH - 5) .. (MAX_CUID2_LENGTH + 2)

\* Digests next to the limits of the encoding: 35 and 36 (one and two
\* characters), 2^152 - 1 (30 characters) and a value of 50 characters,
\* besides the samples above.
ProbeDigests ==
    DigestSamples \cup
        { Fill(HASH_SIZE - 1, 0) \o <<35>>,
          Fill(HASH_SIZE - 1, 0) \o <<36>>,
          Fill(45, 0) \o Fill(19, 255),
          Fill(32, 0) \o Fill(32, 170) }

EncodedProbe == [d \in ProbeDigests |-> encode_base36(d)]

\* What one generate(len) call returns or throws, given the byte drawn for
\* the prefix, what the EVP calls do and the digest SHA3-512 writes.
GenerateOutcome(len, random_byte, evp, d) ==
    IF ~validate_length(len)
    THEN [outcome |-> "InvalidArgument", what |-> InvalidArgumentMessage, id |-> <<>>]
    ELSE LET PREFIX == prefix_from_byte(random_byte)
             hashed == compute_hash(evp, d)
         IN  IF hashed.kind # "ok"
             THEN [outcome |-> hashed.kind, what |-> hashed.what, id |-> <<>>]
             ELSE [outcome |-> "ok", what |-> <<>>,
                   id |-> format_result(PREFIX, EncodedProbe[hashed.hash_output], len)]

ProbeApply ==
    /\ probe.fn = "none"
    /\ \E len \in ProbeLengths, random_byte \in Byte, d \in ProbeDigests,
          evp \in {EvpAllSucceed} \cup EvpFailures :
           LET got == GenerateOutcome(len, random_byte, evp, d)
           IN  probe' = [fn |-> "generate", len |-> len, byte |-> random_byte,
                         digest |-> IF got.outcome = "ok" THEN d ELSE <<>>,
                         valid |-> validate_length(len),
                         outcome |-> got.outcome, what |-> got.what, id |-> got.id]
    /\ UNCHANGED machineVars

SpecPipeline == Init /\ [][ProbeApply]_vars

\* ------------------------------------------------------------ cuid2gen.cpp
\* "-h", "--help", "-l", "--length"
is_help_flag(arg) == arg = <<45, 104>> \/ arg = <<45, 45, 104, 101, 108, 112>>

\* Faulty variant of is_length_flag: the short form only.
is_length_flag_ShortOnly(arg) == arg = <<45, 108>>

is_length_flag(arg) ==
    arg = <<45, 108>> \/ arg = <<45, 45, 108, 101, 110, 103, 116, 104>>

\* The decimal digits of the largest int, and of the magnitude of the least
\* (int has 32 bits).
IntMaxDigits == <<50, 49, 52, 55, 52, 56, 51, 54, 52, 55>>
IntMinDigits == <<50, 49, 52, 55, 52, 56, 51, 54, 52, 56>>

RECURSIVE StripZeros(_)
StripZeros(digits) ==
    IF Len(digits) > 1 /\ Head(digits) = 48 THEN StripZeros(Tail(digits)) ELSE digits

\* The digits, after '-' if negative, denote a value an int can hold.
InIntRange(negative, digits) ==
    LET sig == StripZeros(digits)
        limit == IF negative THEN IntMinDigits ELSE IntMaxDigits
    IN  Len(sig) < Len(limit) \/ (Len(sig) = Len(limit) /\ ~LexLess(limit, sig))

\* The value of the digits, accumulated as a negative number so that the
\* least int is reached without overflow.
RECURSIVE NegatedValue(_, _)
NegatedValue(digits, acc) ==
    IF digits = <<>> THEN acc
    ELSE NegatedValue(Tail(digits), acc * 10 - (Head(digits) - 48))

\* std::from_chars(first, last, value) for int, base 10: an optional '-',
\* then the longest run of digits.  ptr is the number of characters consumed;
\* value is left alone unless the conversion succeeds.
from_chars(text, value) ==
    LET negative == text # <<>> /\ text[1] = 45
        first == IF negative THEN 2 ELSE 1
        stops == {k \in first .. Len(text) : ~IsDigitChar(text[k])}
        last  == IF stops = {} THEN Len(text)
                 ELSE (CHOOSE k \in stops : \A j \in stops : k <= j) - 1
        digits == SubSeq(text, first, last)
    IN  IF digits = <<>>
        THEN [ptr |-> 0, ec |-> "invalid_argument", value |-> value]
        ELSE IF ~InIntRange(negative, digits)
        THEN [ptr |-> last, ec |-> "result_out_of_range", value |-> value]
        ELSE [ptr |-> last, ec |-> "ok",
              value |-> IF negative THEN NegatedValue(digits, 0)
                        ELSE 0 - NegatedValue(digits, 0)]

\* The while loop of main: argv[i] of the code is argv[i + 1] here (argv[0]
\* is the program name).  It ends in a return or falls through to generate.
RECURSIVE ArgumentLoop(_, _, _)
ArgumentLoop(argv, i, length) ==
    LET argc == Len(argv)
    IN  IF ~(i < argc) THEN [end |-> "generate", length |-> length]
        ELSE LET ARG == argv[i + 1]
             IN  IF is_help_flag(ARG) THEN [end |-> "help", length |-> length]
                 ELSE IF is_length_flag(ARG)
                 THEN IF i + 1 >= argc
                      THEN [end |-> "requires_argument", length |-> length]
                      ELSE LET LENGTH_ARG == argv[i + 2]
                               parsed == from_chars(LENGTH_ARG, length)
                           IN  IF parsed.ec # "ok" \/ parsed.ptr # Len(LENGTH_ARG)
                               THEN [end |-> "invalid_length", length |-> parsed.value]
                               ELSE ArgumentLoop(argv, i + 2, parsed.value)
                 ELSE [end |-> "unknown_option", length |-> length]

\* main: the exit status, whether the help text was printed, the lengths
\* generate was called with and the identifiers printed on standard output.
main(argv, random_byte, evp, d) ==
    LET args == ArgumentLoop(argv, 1, DEFAULT_LENGTH)
    IN  IF args.end = "help"
        THEN [status |-> 0, help |-> TRUE, error |-> "none",
              generate |-> <<>>, ids |-> <<>>]
        ELSE IF args.end # "generate"
        THEN [status |-> 1, help |-> TRUE, error |-> args.end,
              generate |-> <<>>, ids |-> <<>>]
        ELSE LET got == GenerateOutcome(args.length, random_byte, evp, d)
             IN  IF got.outcome = "ok"
                 THEN [status |-> 0, help |-> FALSE, error |-> "none",
                       generate |-> <<args.length>>, ids |-> <<got.id>>]
                 ELSE [status |-> 1, help |-> FALSE, error |-> got.outcome,
                       generate |-> <<args.length>>, ids |-> <<>>]

\* Arguments of a command line: the flags in both forms, lengths inside and
\* outside [4,32], "-5", "+5", "12x", the empty string, "-x" and "2147483648".
ProgramName == <<99, 117, 105, 100, 50, 103, 101, 110>>
CliTokens ==
    { <<45, 104>>, <<45, 45, 104, 101, 108, 112>>,
      <<45, 108>>, <<45, 45, 108, 101, 110, 103, 116, 104>>,
      <<49, 54>>, <<51>>, <<45, 53>>, <<43, 53>>, <<49, 50, 120>>, <<>>,
      <<45, 120>>, <<50, 49, 52, 55, 52, 56, 51, 54, 52, 56>> }

\* Arguments on one command line.
MaxArgs == 4

CommandLines == UNION {[1 .. n -> CliTokens] : n \in 0 .. MaxArgs}

MainApply ==
    /\ probe.fn = "none"
    /\ \E args \in CommandLines, evp \in {EvpAllSucceed} \cup EvpFailures :
           LET argv == <<ProgramName>> \o args
           IN  probe' = [fn |-> "main", argv |-> argv, evp |-> evp,
                         result |-> main(argv, 0, evp, Fill(HASH_SIZE, 255))]
    /\ UNCHANGED machineVars

SpecCli == Init /\ [][MainApply]_vars

\* ------------------------------------------------------------ encode_base36 on chosen inputs
EdgeBytes == {0, 1, 35, 36, 42, 255}
ZeroPrefixes == 0 .. 3

\* Byte sequences handed to encode_base36: the empty one, every single byte,
\* pairs and triples of bytes next to the limits, the digests; each also
\* behind one to three zero bytes.
EncodeCores ==
    {<<>>} \cup {<<b>> : b \in Byte}
           \cup {<<a, b>> : a \in EdgeBytes, b \in Byte}
           \cup {<<a, b, c>> : a \in EdgeBytes, b \in EdgeBytes, c \in EdgeBytes}
           \cup ProbeDigests

EncodeApply ==
    /\ probe.fn = "none"
    /\ \E core \in EncodeCores, zeros \in ZeroPrefixes :
           LET data == Fill(zeros, 0) \o core
           IN  probe' = [fn |-> "encode_base36", core |-> core, zeros |-> zeros,
                         data |-> data, encoded |-> encode_base36(data)]
    /\ UNCHANGED machineVars

SpecEncode == Init /\ [][EncodeApply]_vars

\* ------------------------------------------------------------ get_environment_variables on chosen tables
\* Entries of an environment table: "A=x", "B=1", "B=2", "AB=", "=v", "C"
\* (no '='), "A=B=C", "a=1" and an entry whose key is the byte 200.
EnvEntries ==
    { <<65, 61, 120>>, <<66, 61, 49>>, <<66, 61, 50>>, <<65, 66, 61>>, <<61, 118>>,
      <<67>>, <<65, 61, 66, 61, 67>>, <<97, 61, 49>>, <<200, 61, 49>> }

\* Entries of one table.
MaxEnvEntries == 3

EnvTables == UNION {[1 .. n -> EnvEntries] : n \in 0 .. MaxEnvEntries}

EnvironApply ==
    /\ probe.fn = "none"
    /\ \E envp \in EnvTables :
           probe' = [fn |-> "get_environment_variables", envp |-> envp,
                     env_vars |-> get_environment_variables(envp)]
    /\ UNCHANGED machineVars

SpecEnviron == Init /\ [][EnvironApply]_vars

\* ------------------------------------------------------------ the fingerprint on chosen inputs
\* What gethostname() leaves in the zero-initialised buffer: "h1", the empty
\* name, "web-01".
HostnameBuffers == {<<104, 49, 0>>, <<0>>, <<119, 101, 98, 45, 48, 49, 0, 0>>}

\* The 8 bytes drawn for the fallback hostname.
HostnameDraws ==
    { Fill(RANDOM_BYTES, 0), Fill(RANDOM_BYTES, 255),
      <<1, 35, 69, 103, 137, 171, 205, 239>>, <<16, 10, 9, 160, 175, 250, 15, 240>> }

\* Process ids: values in which one, two, three and four bytes are set.
PidSamples == {0, 1, 255, 256, 4660, 65536, 16777216, 2147483647}

FingerprintTables == {envp \in EnvTables : Len(envp) < MaxEnvEntries}

\* The constructor's generate(): get_hostname (gethostname succeeding or
\* failing), get_process_id, get_environment_variables, then the bytes.
FingerprintApply ==
    /\ probe.fn = "none"
    /\ \E ok \in BOOLEAN, buf \in HostnameBuffers, random_bytes \in HostnameDraws,
          PROCESS_ID \in PidSamples, envp \in FingerprintTables :
           LET name == get_hostname(ok, buf, random_bytes)
               env_vars == get_environment_variables(envp)
           IN  probe' = [fn |-> "fingerprint", ok |-> ok,
                         buf |-> IF ok THEN buf ELSE <<>>,
                         random_bytes |-> IF ok THEN <<>> ELSE random_bytes,
                         hostname |-> name, pid |-> PROCESS_ID, envp |-> envp,
                         env_vars |-> env_vars,
                         value |-> FingerprintGenerate(name, PROCESS_ID, env_vars)]
    /\ UNCHANGED machineVars

SpecFingerprint == Init /\ [][FingerprintApply]_vars

\* ------------------------------------------------------------ format_result on chosen inputs
\* Encoded strings of 0 to 34 characters, the k-th character being the
\* k-th of the alphabet (cyclically), so that positions can be told apart.
EncodedLengths == 0 .. (MAX_CUID2_LENGTH + 2)
EncodedOfLength(n) == [k \in 1 .. n |-> get_base36_chars[((k - 1) % BASE36_RADIX) + 1]]

FormatApply ==
    /\ probe.fn = "none"
    /\ \E random_byte \in PrefixByteSamples, n \in EncodedLengths,
          MAX_LENGTH \in MIN_CUID2_LENGTH .. MAX_CUID2_LENGTH :
           LET PREFIX == prefix_from_byte(random_byte)
               ENCODED == EncodedOfLength(n)
           IN  probe' = [fn |-> "format_result", prefix |-> PREFIX, encoded |-> ENCODED,
                         len |-> MAX_LENGTH,
                         result |-> format_result(PREFIX, ENCODED, MAX_LENGTH)]
    /\ UNCHANGED machineVars

SpecFormat == Init /\ [][FormatApply]_vars

\* ------------------------------------------------------------ prefix_from_byte on every byte
PrefixApply ==
    /\ probe.fn = "none"
    /\ \E random_byte \in Byte :
           probe' = [fn |-> "prefix_from_byte", random_byte |-> random_byte,
                     letter |-> prefix_from_byte(random_byte)]
    /\ UNCHANGED machineVars

SpecPrefix == Init /\ [][PrefixApply]_vars

\* ------------------------------------------------------------ the seed on chosen draws
\* 8-byte draws: every combination of the bytes 0 and 255, the draws of the
\* state machine, and the draws whose seeds are the largest and the least
\* whose product is a value of int64_t, with their neighbours.
SeedProbeDraws ==
    [1 .. INT64_SIZE -> {0, 255}] \cup SeedDrawSamples
    \cup { <<1, 0, 0, 0, 0, 0, 0, 0>>,
           <<188, 210, 13, 129, 4, 0, 0, 0>>, <<189, 210, 13, 129, 4, 0, 0, 0>>,
           <<68, 45, 242, 126, 251, 255, 255, 255>>,
           <<67, 45, 242, 126, 251, 255, 255, 255>> }

SeedApply ==
    /\ probe.fn = "none"
    /\ \E bytes \in SeedProbeDraws :
           \E initial \in generate_initial_counter_value(bytes) :
               probe' = [fn |-> "generate_initial_counter_value", bytes |-> bytes,
                         initial |-> initial]
    /\ UNCHANGED machineVars

SpecSeed == Init /\ [][SeedApply]_vars

\* ------------------------------------------------------------ build_hash_input on chosen inputs
\* Two calls of build_hash_input side by side.  The samples hold values that
\* differ in one byte only, random bytes that are prefixes of one another,
\* and fingerprints that are prefixes of one another.
TimestampSamples == {I64Zero, ClockStart, I64Add(ClockStart, 1)}
CounterSamples == {I64Zero, Fill(INT64_SIZE, 255), <<0, 0, 0, 0, 0, 0, 1, 0>>}
RandomTailSamples == {<<>>, <<0>>, <<0, 0>>, <<171>>, <<171, 0>>}
FingerprintSamples == {<<>>, <<0>>, <<104, 49>>}
HashInputArgs ==
    [TIMESTAMP : TimestampSamples, COUNTER : CounterSamples,
     fingerprint : FingerprintSamples, random_bytes : RandomTailSamples]

HashInputApply ==
    /\ probe.fn = "none"
    /\ \E a \in HashInputArgs, b \in HashInputArgs :
           probe' = [fn |-> "build_hash_input", a |-> a, b |-> b,
                     bufferA |-> build_hash_input(a.TIMESTAMP, a.COUNTER, a.fingerprint,
                                                  a.random_bytes),
                     bufferB |-> build_hash_input(b.TIMESTAMP, b.COUNTER, b.fingerprint,
                                                  b.random_bytes)]
    /\ UNCHANGED machineVars

SpecHashInput == Init /\ [][HashInputApply]_vars

\* ------------------------------------------------------------ reading the history
\* The record is of a generate call that passed validate_length and ran to
\* its hash step; of one that returned an identifier; of a call that read the
\* fingerprint bytes.
PassedValidation(r) == r.op = "generate" /\ r.outcome # "InvalidArgument"
ReturnedId(r) == r.op = "generate" /\ r.outcome = "ok"
ReadFingerprint(r) == r.op = "get" \/ PassedValidation(r)
LastCall == calls[Len(calls)]

\* ------------------------------------------------------------ properties
\* C1: for every length in 4..32 and every digest the hash step returns,
\* generate(length) returns a string of exactly length characters (the
\* truncation in format_result never under-runs).
C1_ExactLength ==
    \A i \in 1 .. Len(calls) :
        ReturnedId(calls[i]) => Len(calls[i].id) = calls[i].len

\* C2: every string generate returns, for any valid length, any digest and
\* any of the 256 values of the prefix byte, is non-empty, starts with a
\* letter a..z and consists only of characters 0-9 and a-z.
C2_ValidCharacters ==
    (probe.fn = "generate" /\ probe.outcome = "ok") =>
        /\ probe.id # <<>>
        /\ IsLowerChar(probe.id[1])
        /\ \A k \in 1 .. Len(probe.id) : IsBase36Char(probe.id[k])

C2_Witness ==
    /\ probe.fn = "generate" /\ probe.outcome = "ok"
    /\ probe.byte = 255
    /\ probe.len = MAX_CUID2_LENGTH
    /\ Len(probe.id) = MAX_CUID2_LENGTH

\* C3: a generate(length) call with length < 4 or length > 32 fails with
\* InvalidArgument before any side effect: the step that ends it changes
\* neither counter nor entropy consumption nor anything but the history, and
\* no call with such a length ever reaches the timestamp or a later step.
C3_InvalidLengthNoEffect ==
    /\ [](\A t \in Threads :
            thr[t].op = "generate" =>
                thr[t].len \in MIN_CUID2_LENGTH .. MAX_CUID2_LENGTH)
    /\ [][ (/\ Len(calls') = Len(calls) + 1
            /\ calls'[Len(calls')].op = "generate"
            /\ calls'[Len(calls')].len \notin MIN_CUID2_LENGTH .. MAX_CUID2_LENGTH)
           => /\ calls'[Len(calls')].outcome = "InvalidArgument"
              /\ thr[calls'[Len(calls')].thread].pc = "idle"
              /\ UNCHANGED <<mainEntered, counterVars, Fingerprint_instance_,
                             platformVars, thr, entropy, fpComputations>> ]_vars

C3_Witness ==
    /\ calls # <<>>
    /\ LastCall.op = "generate"
    /\ LastCall.outcome = "InvalidArgument"
    /\ LastCall.len = MAX_CUID2_LENGTH + 1
    /\ instance.guard = "done"
    /\ returned # <<>>

\* C4: the N calls of Counter::next() made so far, by any threads in any
\* interleaving, received N different values, and the set of these values
\* is {seed, seed + 1, ..., seed + N - 1} (64-bit arithmetic), seed being
\* the value returned to the first call to take effect.
C4_DistinctContiguous ==
    LET N == Len(returned)
        values == {returned[i] : i \in 1 .. N}
    IN  N > 0 =>
            /\ Cardinality(values) = N
            /\ values = {I64Add(returned[1], k) : k \in 0 .. N - 1}

C4_Witness ==
    /\ Len(calls) = MaxCalls
    /\ \A i \in 1 .. Len(calls) : calls[i].op = "next"
    /\ calls[1].thread # calls[2].thread
    /\ calls[2].began = 0
    /\ calls[1].ctr # calls[2].ctr

\* C5, as the specification states it: any two completed generate calls of
\* one process return unequal identifier strings.
C5_UnequalIds ==
    \A i, j \in 1 .. Len(calls) :
        (i # j /\ ReturnedId(calls[i]) /\ ReturnedId(calls[j]))
            => calls[i].id # calls[j].id

\* C5, amended: any two generate calls of one process that passed validation
\* took different counter values and therefore hashed different inputs, even
\* within one timestamp tick and with equal random bytes; the identifiers
\* are prefixes of the two digests' encodings and are not thereby unequal.
C5_DistinctHashInputs ==
    \A i, j \in 1 .. Len(calls) :
        (i # j /\ PassedValidation(calls[i]) /\ PassedValidation(calls[j]))
            => /\ calls[i].ctr # calls[j].ctr
               /\ calls[i].input # calls[j].input

C5_Witness ==
    /\ Len(calls) = 2
    /\ ReturnedId(calls[1]) /\ ReturnedId(calls[2])
    /\ calls[1].thread # calls[2].thread
    /\ calls[1].ts = calls[2].ts
    /\ calls[1].id = calls[2].id
    /\ calls[1].input # calls[2].input

\* C6: identifiers sort lexicographically by creation time: when one
\* generate call completes before another begins (same length, the clock not
\* moving backwards), the earlier identifier does not sort after the later.
C6_SortableByCreation ==
    \A i, j \in 1 .. Len(calls) :
        (/\ ReturnedId(calls[i]) /\ ReturnedId(calls[j])
         /\ i <= calls[j].began
         /\ calls[i].len = calls[j].len
         /\ I64LessEq(calls[i].ts, calls[j].ts))
            => ~LexLess(calls[j].id, calls[i].id)

\* C7: each increment returns the value stored before it and stores that
\* value plus one, so that a call of Counter::next() following another with
\* no increment in between returns the previous call's value plus one.
C7_ReturnsPreviousPlusOne ==
    [][ Len(returned') = Len(returned) + 1
        => /\ returned'[Len(returned')] = instance.value_
           /\ instance'.value_ = I64Add(instance.value_, 1)
           /\ returned # <<>> =>
                  returned'[Len(returned')] = I64Add(returned[Len(returned)], 1) ]_vars

C7_Witness ==
    /\ Len(calls) = 2
    /\ calls[1].op = "next" /\ calls[2].op = "next"
    /\ calls[1].thread = calls[2].thread
    /\ calls[2].began = 1
    /\ calls[2].ctr = I64Add(calls[1].ctr, 1)

\* C8: Fingerprint::get() returns the same byte sequence on every call for
\* the whole process lifetime: every call that read the fingerprint, get or
\* generate, read the same bytes.
C8_SameBytesEveryCall ==
    \A i, j \in 1 .. Len(calls) :
        (ReadFingerprint(calls[i]) /\ ReadFingerprint(calls[j]))
            => calls[i].fp = calls[j].fp

\* C9: the fingerprint computation runs once per process and completes
\* before any get() or generate() reads the fingerprint bytes: no reader
\* observes an empty or unbuilt fingerprint.
C9_BuiltOnceBeforeReaders ==
    /\ fpComputations <= 1
    /\ \A i \in 1 .. Len(calls) :
           ReadFingerprint(calls[i]) => (calls[i].fpBuilt /\ calls[i].fp # <<>>)

\* C10: one counter seed computation (one 8-byte draw for seeding) occurs
\* per process, and every next() operates on the counter it initialised.
C10_SingleSeedComputation ==
    /\ seedComputations <= 1
    /\ (returned # <<>> => seedComputations = 1)

\* The sequence part occurs in the sequence text as a contiguous run.
Contains(text, part) ==
    \E k \in 0 .. Len(text) - Len(part) : SubSeq(text, k + 1, k + Len(part)) = part

\* Calls in flight that have taken their counter value.
PastFetchAdd == {t \in Threads : thr[t].pc \in {"fingerprint", "random_bytes", "prefix", "hash"}}
CounterTakers == {i \in 1 .. Len(calls) : calls[i].op = "next" \/ PassedValidation(calls[i])}

RECURSIVE BigEndianValue(_)
BigEndianValue(bytes) ==
    IF bytes = <<>> THEN <<>>
    ELSE IF Head(bytes) = 0 THEN BigEndianValue(Tail(bytes)) ELSE bytes

\* The value of a character as a base-36 digit, and of a numeral (most
\* significant digit first) as a number in base-256 digits without leading
\* zeros: the numeral is read by Horner's rule, value * 36 + digit.
DigitValue(c) == IF IsDigitChar(c) THEN c - 48 ELSE c - 87

RECURSIVE TimesPlus(_, _, _, _)
TimesPlus(num, i, m, carry) ==
    IF i = 0 \/ carry < 0 THEN (IF carry = 0 THEN <<>> ELSE <<carry>>)
    ELSE LET s == num[i] * m + carry
         IN  Append(TimesPlus(num, i - 1, m, s \div 256), s % 256)

\* (The range of characters is split in halves so that the evaluation stays
\* shallow; the characters are still read from the first to the last.)
RECURSIVE NumeralRange(_, _, _, _)
NumeralRange(text, lo, hi, acc) ==
    IF lo > hi THEN acc
    ELSE IF lo = hi THEN TimesPlus(acc, Len(acc), 36, DigitValue(text[lo]))
    ELSE LET mid == (lo + hi) \div 2
             left == NumeralRange(text, lo, mid, acc)
         IN  IF Len(left) >= 0 THEN NumeralRange(text, mid + 1, hi, left) ELSE left

NumeralValue(text) == BigEndianValue(NumeralRange(text, 1, Len(text), <<>>))

\* C12: encode_base36(b) is a string over 0-9a-z whose value as a base-36
\* numeral, most significant digit first, equals the value of b read as a
\* big-endian unsigned integer; [42] -> "16", [255] -> "73", [1,0] -> "74".
C12_NumeralOfValue ==
    probe.fn = "encode_base36" =>
        /\ \A k \in 1 .. Len(probe.encoded) : IsBase36Char(probe.encoded[k])
        /\ NumeralValue(probe.encoded) = BigEndianValue(probe.data)
        /\ probe.data = <<42>> => probe.encoded = <<49, 54>>
        /\ probe.data = <<255>> => probe.encoded = <<55, 51>>
        /\ probe.data = <<1, 0>> => probe.encoded = <<55, 52>>

C12_Witness ==
    /\ probe.fn = "encode_base36"
    /\ probe.data = Fill(HASH_SIZE, 255)
    /\ Len(probe.encoded) = 100

\* C13: encode_base36 gives the canonical numeral: the empty input and every
\* all-zero input yield "0"; any other output is non-empty and does not
\* start with '0'; zero bytes put before an input do not change its encoding.
C13_CanonicalNumeral ==
    probe.fn = "encode_base36" =>
        /\ (\A k \in 1 .. Len(probe.data) : probe.data[k] = 0) => probe.encoded = <<48>>
        /\ (\E k \in 1 .. Len(probe.data) : probe.data[k] # 0) =>
               (probe.encoded # <<>> /\ probe.encoded[1] # 48)
        /\ probe.encoded = encode_base36(probe.core)

C13_Witness ==
    /\ probe.fn = "encode_base36"
    /\ probe.zeros = 3
    /\ probe.core = <<1, 0>>
    /\ probe.encoded = <<55, 52>>

\* C14: the buffer a generate(N) call hashes is the 8 bytes of the timestamp,
\* least significant first (byte i is the digit of weight 256^i of the
\* 64-bit pattern), the 8 bytes of the counter value likewise, the
\* fingerprint bytes as read, then the N random bytes, with nothing in
\* between; its length is 16 + |fingerprint| + N.
C14_HashInputLayout ==
    \A i \in 1 .. Len(calls) :
        PassedValidation(calls[i]) =>
            LET r == calls[i]
                F == Len(r.fp)
            IN  /\ Len(r.input) = 16 + F + r.len
                /\ Len(r.rnd) = r.len
                /\ \A k \in 0 .. 7 :
                       /\ r.input[k + 1] = r.ts[INT64_SIZE - k]
                       /\ r.input[k + 9] = r.ctr[INT64_SIZE - k]
                /\ SubSeq(r.input, 17, 16 + F) = r.fp
                /\ SubSeq(r.input, 17 + F, 16 + F + r.len) = r.rnd

C14_Witness ==
    /\ calls # <<>>
    /\ PassedValidation(LastCall)
    /\ LastCall.ctr = Fill(INT64_SIZE, 255)
    /\ LastCall.fp # <<>>
    /\ LastCall.len = MAX_CUID2_LENGTH
    /\ LastCall.ts = I64Add(ClockStart, 1)

\* The two tables hold the same entries; no key of the table occurs with two
\* different values.
SameEntries(p, q) == {p[i] : i \in 1 .. Len(p)} = {q[i] : i \in 1 .. Len(q)}

KeyOf(entry) == SubSeq(entry, 1, StrChrEq(entry) - 1)

NoKeyTwice(p) ==
    \A i, j \in 1 .. Len(p) :
        (StrChrEq(p[i]) # 0 /\ StrChrEq(p[j]) # 0 /\ KeyOf(p[i]) = KeyOf(p[j]))
            => p[i] = p[j]

StrictlyAscendingKeys(env_vars) ==
    \A i, j \in 1 .. Len(env_vars) :
        i < j => LexLess(env_vars[i].key, env_vars[j].key)

\* C16, as the specification states it: for any table, with or without
\* repeated keys, the variables hold each key once, in strictly ascending
\* byte-wise key order, and any two tables with the same set of entries in
\* different orders give the same variables.
C16_AnyOrderSameSection ==
    probe.fn = "get_environment_variables" =>
        /\ StrictlyAscendingKeys(probe.env_vars)
        /\ \A q \in EnvTables :
               SameEntries(q, probe.envp) =>
                   get_environment_variables(q) = probe.env_vars

\* C16, amended: for any table the variables hold each key once, in strictly
\* ascending byte-wise key order; two tables with the same set of entries in
\* different orders give the same variables when no key occurs in them with
\* two different values (else the entry that comes first in its table wins).
C16_SortedUniqueKeys ==
    probe.fn = "get_environment_variables" =>
        /\ StrictlyAscendingKeys(probe.env_vars)
        /\ \A q \in EnvTables :
               (SameEntries(q, probe.envp) /\ NoKeyTwice(probe.envp)) =>
                   get_environment_variables(q) = probe.env_vars

C16_Witness ==
    /\ probe.fn = "get_environment_variables"
    /\ probe.envp = << <<200, 61, 49>>, <<66, 61, 50>>, <<65, 61, 120>> >>
    /\ probe.env_vars = << [key |-> <<65>>, value |-> <<120>>],
                           [key |-> <<66>>, value |-> <<50>>],
                           [key |-> <<200>>, value |-> <<49>>] >>

\* The pairs i, i + 1, ... of env_vars stand in value from position off on,
\* each as key, '=', value, and nothing follows the last.
RECURSIVE PairsFrom(_, _, _, _)
PairsFrom(value, off, env_vars, i) ==
    IF i > Len(env_vars) THEN off = Len(value) + 1
    ELSE LET K == Len(env_vars[i].key)
             V == Len(env_vars[i].value)
         IN  /\ off + K + V <= Len(value)
             /\ SubSeq(value, off, off + K - 1) = env_vars[i].key
             /\ value[off + K] = 61
             /\ SubSeq(value, off + K + 1, off + K + V) = env_vars[i].value
             /\ PairsFrom(value, off + K + V + 1, env_vars, i + 1)

RECURSIVE PairsLength(_)
PairsLength(env_vars) ==
    IF env_vars = <<>> THEN 0
    ELSE Len(Head(env_vars).key) + 1 + Len(Head(env_vars).value)
             + PairsLength(Tail(env_vars))

\* C15: the fingerprint is the hostname bytes, the process id as 4 bytes,
\* least significant first, then key, '=', value for each variable in
\* ascending key order with nothing between the pairs; its length is
\* |hostname| + 4 + the sum of |key| + 1 + |value|, never less than 4.
C15_FingerprintLayout ==
    probe.fn = "fingerprint" =>
        LET H == Len(probe.hostname)
            value == probe.value
        IN  /\ Len(value) = H + 4 + PairsLength(probe.env_vars)
            /\ Len(value) >= 4
            /\ SubSeq(value, 1, H) = probe.hostname
            /\ value[H + 1] + 256 * value[H + 2] + 65536 * value[H + 3]
                   + 16777216 * value[H + 4] = probe.pid
            /\ \A k \in 1 .. 4 : value[H + k] \in Byte
            /\ StrictlyAscendingKeys(probe.env_vars)
            /\ PairsFrom(value, H + 5, probe.env_vars, 1)

C15_Witness ==
    /\ probe.fn = "fingerprint"
    /\ probe.hostname = <<119, 101, 98, 45, 48, 49>>
    /\ probe.pid = 4660
    /\ probe.envp = << <<66, 61, 49>>, <<65, 61, 120>> >>
    /\ probe.value = <<119, 101, 98, 45, 48, 49, 52, 18, 0, 0, 65, 61, 120, 66, 61, 49>>

\* The value of a character 0-9a-f as a hexadecimal digit (16 for any other).
HexDigitValue(c) ==
    IF c \in 48 .. 57 THEN c - 48 ELSE IF c \in 97 .. 102 THEN c - 87 ELSE 16

\* C17: when hostname retrieval fails, get_hostname returns 16 characters
\* from 0-9a-f, the two-digit lower-case hexadecimal rendering of the 8
\* bytes drawn, and the fingerprint is still computed, beginning with them.
C17_HexFallbackHostname ==
    (probe.fn = "fingerprint" /\ ~probe.ok) =>
        /\ Len(probe.random_bytes) = RANDOM_BYTES
        /\ Len(probe.hostname) = 16
        /\ \A k \in 1 .. RANDOM_BYTES :
               /\ HexDigitValue(probe.hostname[2 * k - 1]) < 16
               /\ HexDigitValue(probe.hostname[2 * k]) < 16
               /\ 16 * HexDigitValue(probe.hostname[2 * k - 1])
                      + HexDigitValue(probe.hostname[2 * k]) = probe.random_bytes[k]
        /\ SubSeq(probe.value, 1, 16) = probe.hostname
        /\ Len(probe.value) >= 20

C17_Witness ==
    /\ probe.fn = "fingerprint" /\ ~probe.ok
    /\ probe.random_bytes = <<16, 10, 9, 160, 175, 250, 15, 240>>
    /\ probe.hostname = <<49, 48, 48, 97, 48, 57, 97, 48, 97, 102, 102, 97, 48, 102, 102, 48>>

\* The largest and the smallest int64_t.
I64Max == <<127, 255, 255, 255, 255, 255, 255, 255>>
I64Min == <<128, 0, 0, 0, 0, 0, 0, 0>>

GenerateStep(t) ==
    /\ thr'[t] # thr[t]
    /\ thr'[t].pc # "terminated"
    /\ thr[t].op = "generate" \/ thr'[t].op = "generate"

\* C21: of the state shared between calls, a generate call of valid length
\* changes the counter only, and advances it by exactly 1, whether it then
\* returns an identifier or fails with CryptoFailure: the value a failed call
\* took is taken by no other call; fingerprint, the other Counter object,
\* platform and the other threads' locals are left alone; the counter holds
\* seed + the number of increments, which after k such calls (and no direct
\* next()) is seed + k.
C21_CounterAdvancedOnce ==
    /\ [](/\ returned # <<>> =>
                instance.value_ = I64Add(returned[1], Len(returned))
          /\ \A i \in 1 .. Len(calls) :
                PassedValidation(calls[i]) =>
                    /\ calls[i].ord \in 1 .. Len(returned)
                    /\ returned[calls[i].ord] = calls[i].ctr
                    /\ \A j \in 1 .. Len(calls) :
                           (j # i /\ (PassedValidation(calls[j]) \/ calls[j].op = "next"))
                               => (calls[j].ctr # calls[i].ctr /\ calls[j].ord # calls[i].ord)
          /\ (/\ \A t \in Threads : thr[t].pc = "idle"
              /\ \A i \in 1 .. Len(calls) : calls[i].op # "next")
                 => Len(returned) =
                        Cardinality({i \in 1 .. Len(calls) : PassedValidation(calls[i])}))
    /\ [][ \A t \in Threads :
             GenerateStep(t) =>
                 /\ UNCHANGED <<Fingerprint_instance_, Counter_instance_, now,
                                hostname, environ>>
                 /\ \A u \in Threads \ {t} : thr'[u] = thr[u]
                 /\ SubSeq(calls', 1, Len(calls)) = calls
                 /\ instance.guard = "done" =>
                        IF thr[t].pc = "fetch_add"
                        THEN instance'.value_ = I64Add(instance.value_, 1)
                        ELSE instance' = instance ]_vars

C21_Witness ==
    /\ Len(calls) = 2
    /\ calls[1].op = "generate" /\ calls[1].outcome = "CryptoFailure"
    /\ calls[2].op = "generate" /\ calls[2].outcome = "ok"
    /\ calls[2].ctr = I64Add(calls[1].ctr, 1)
    /\ instance.value_ = I64Add(calls[1].ctr, 2)

\* What a step of a generate call draws from the entropy source besides the
\* seed: the N bytes for the hash input, the byte for the prefix.
DrawnForIdentifier(t) ==
    IF thr[t].pc = "random_bytes" THEN thr[t].len
    ELSE IF thr[t].pc = "prefix" THEN 1
    ELSE 0

\* The order of the steps of a generate call that passed validation, and the
\* effect of each step.
StepsInOrder(t) ==
    /\ <<thr[t].pc, thr'[t].pc>> \in
           { <<"idle", "timestamp">>, <<"timestamp", "counter_instance">>,
             <<"counter_instance", "counter_ctor">>, <<"counter_instance", "fetch_add">>,
             <<"counter_ctor", "fetch_add">>, <<"fetch_add", "fingerprint">>,
             <<"fingerprint", "random_bytes">>, <<"random_bytes", "prefix">>,
             <<"prefix", "hash">>, <<"hash", "idle">> }
    /\ thr[t].pc = "timestamp" => thr'[t].ts = now
    /\ thr[t].pc \notin {"idle", "timestamp", "hash"} => thr'[t].ts = thr[t].ts
    /\ thr[t].pc = "fetch_add" =>
           /\ Len(returned') = Len(returned) + 1
           /\ thr'[t].ctr = returned'[Len(returned')]
    /\ thr[t].pc \in {"fingerprint", "random_bytes", "prefix"} => thr'[t].ctr = thr[t].ctr
    /\ thr[t].pc = "random_bytes" => Len(thr'[t].rnd) = thr[t].len
    /\ thr[t].pc \in {"idle", "timestamp", "counter_instance", "counter_ctor",
                      "fetch_add", "fingerprint"} => thr'[t].rnd = <<>>
    /\ thr[t].pc = "prefix" => thr'[t].rnd = thr[t].rnd
    /\ thr[t].pc = "hash" =>
           LET r == calls'[Len(calls')]
           IN  /\ Len(calls') = Len(calls) + 1
               /\ r.ts = thr[t].ts /\ r.ctr = thr[t].ctr /\ r.rnd = thr[t].rnd
               /\ r.input = build_hash_input(r.ts, r.ctr, r.fp, r.rnd)
               /\ Len(r.input) = 2 * INT64_SIZE + Len(r.fp) + r.len

\* C22, as the specification states it: in a generate(N) call that passed
\* validation the timestamp is read, then the counter incremented, then the
\* fingerprint read, then N random bytes drawn for the hash input, then one
\* for the prefix, then the hash computed; the call draws N + 1 random bytes
\* in total (no other step of it draws any) and the prefix byte is not part
\* of the hash input.
C22_StepsAndDraws ==
    [][ \A t \in Threads :
          GenerateStep(t) =>
              /\ StepsInOrder(t)
              /\ entropy' = entropy + DrawnForIdentifier(t) ]_vars

\* C22, amended: the same order of steps; the call draws N bytes for the
\* hash input and one for the prefix, and the call in which the counter is
\* constructed draws 8 more, for the seed, in its counter step.
C22_StepsAndDrawsWithSeed ==
    [][ \A t \in Threads :
          GenerateStep(t) =>
              /\ StepsInOrder(t)
              /\ entropy' = entropy + DrawnForIdentifier(t)
                     + (IF thr[t].pc = "counter_ctor" THEN INT64_SIZE ELSE 0) ]_vars

C22_Witness ==
    /\ Len(calls) = 2
    /\ ReturnedId(calls[1]) /\ ReturnedId(calls[2])
    /\ calls[1].thread = calls[2].thread
    /\ calls[1].len = MIN_CUID2_LENGTH /\ calls[2].len = MAX_CUID2_LENGTH
    /\ mainEntered
    /\ entropy = 2 * INT64_SIZE + (MIN_CUID2_LENGTH + 1) + (MAX_CUID2_LENGTH + 1)

\* C23: Counter and Fingerprint are created lazily: as long as no call of
\* Counter::next(), Fingerprint::get() or generate() has begun, no seed has
\* been drawn and no fingerprint built (no entropy consumed).
C23_LazyOnFirstAccess ==
    nCalls = 0 => (seedComputations = 0 /\ fpComputations = 0 /\ entropy = 0)

\* One call had returned before the other began.
CompletedBefore(i, j) == i <= calls[j].began

FreshRebuilds ==
    { FingerprintGenerate(get_hostname(TRUE, hostname, <<>>), PidSample,
                          get_environment_variables(environ)) }
    \cup { FingerprintGenerate(get_hostname(FALSE, hostname, bytes), PidSample,
                               get_environment_variables(environ)) :
               bytes \in RandomBytes(RANDOM_BYTES) }

\* The step is a return of Fingerprint::get().
GetReturns == Len(calls') = Len(calls) + 1 /\ calls'[Len(calls')].op = "get"

\* C25, as the specification states it: whenever Fingerprint::get() is
\* called, it returns the byte sequence that a rebuild from the platform
\* gives at that moment.
C25_EqualsRebuildNow ==
    [][ GetReturns => calls'[Len(calls')].fp \in FreshRebuilds ]_vars

\* C25, amended: Fingerprint::get() returns the bytes the constructor stored,
\* which are the bytes built from hostname, process id and environment as
\* they were when the constructor ran, and are never rebuilt; they equal a
\* rebuild made now as long as the platform has not changed since (and the
\* hostname lookup did not fail); a call made before the constructor has run
\* returns the empty sequence.
C25_EqualsBytesAtConstruction ==
    /\ [][ (~Fingerprint_instance_.constructed /\ Fingerprint_instance_'.constructed)
               => Fingerprint_instance_'.cached_value_ \in FreshRebuilds ]_vars
    /\ [][ Fingerprint_instance_.constructed
               => Fingerprint_instance_' = Fingerprint_instance_ ]_vars
    /\ [][ GetReturns =>
               /\ calls'[Len(calls')].fp = Fingerprint_instance_.cached_value_
               /\ ~Fingerprint_instance_.constructed => calls'[Len(calls')].fp = <<>> ]_vars
    /\ []((Fingerprint_instance_.constructed /\ platformEvents = 0)
              => Fingerprint_instance_.cached_value_ \in FreshRebuilds)

C25_Witness ==
    /\ calls # <<>>
    /\ LastCall.op = "get" /\ LastCall.fpBuilt
    /\ hostname # HostnameAtStart
    /\ LastCall.fp = Fingerprint_instance_.cached_value_
    /\ LastCall.fp \notin FreshRebuilds
    /\ SubSeq(LastCall.fp, 1, 2) = CString(HostnameAtStart)

\* The number of byte values that prefix_from_byte maps to the letter.
ByteValuesFor(letter) == Cardinality({b \in Byte : prefix_from_byte(b) = letter})

Letters == 97 .. 122

C28_InjectiveHashInput ==
    probe.fn = "build_hash_input" =>
        /\ (/\ probe.a.fingerprint = probe.b.fingerprint
            /\ probe.a # probe.b) => probe.bufferA # probe.bufferB
        /\ probe.a.COUNTER # probe.b.COUNTER =>
               SubSeq(probe.bufferA, INT64_SIZE + 1, 2 * INT64_SIZE)
                   # SubSeq(probe.bufferB, INT64_SIZE + 1, 2 * INT64_SIZE)

C28_Witness ==
    /\ probe.fn = "build_hash_input"
    /\ probe.a.fingerprint = <<104, 49>> /\ probe.b.fingerprint = <<104, 49>>
    /\ probe.a.TIMESTAMP = probe.b.TIMESTAMP
    /\ probe.a.COUNTER = probe.b.COUNTER
    /\ probe.a.random_bytes = <<0>> /\ probe.b.random_bytes = <<0, 0>>
    /\ probe.bufferB = Append(probe.bufferA, 0)

\* The entry is key, '=', something, the key holding no '='.
EntryOfKey(entry, key) ==
    /\ Len(entry) > Len(key)
    /\ SubSeq(entry, 1, Len(key)) = key
    /\ entry[Len(key) + 1] = 61
    /\ \A p \in 1 .. Len(key) : key[p] # 61

\* C29: get_environment_variables splits each entry at its first '=' (the
\* value is all that follows, further '=' included), leaves out the entries
\* without '=', and of several entries with one key keeps the value of the
\* first in table order: every variable returned is the split of the first
\* entry with its key, every entry with '=' has its key returned, and no key
\* is returned twice.
C29_FirstEqualsFirstWins ==
    probe.fn = "get_environment_variables" =>
        LET envp == probe.envp
            env_vars == probe.env_vars
        IN  /\ \A k \in 1 .. Len(env_vars) :
                   \E i \in 1 .. Len(envp) :
                       /\ envp[i] = env_vars[k].key \o <<61>> \o env_vars[k].value
                       /\ EntryOfKey(envp[i], env_vars[k].key)
                       /\ \A j \in 1 .. i - 1 : ~EntryOfKey(envp[j], env_vars[k].key)
            /\ \A i \in 1 .. Len(envp) :
                   (\E p \in 1 .. Len(envp[i]) : envp[i][p] = 61)
                       => \E k \in 1 .. Len(env_vars) : EntryOfKey(envp[i], env_vars[k].key)
            /\ \A k, l \in 1 .. Len(env_vars) :
                   env_vars[k].key = env_vars[l].key => k = l

C29_Witness ==
    /\ probe.fn = "get_environment_variables"
    /\ probe.envp = << <<65, 61, 66, 61, 67>>, <<67>>, <<65, 61, 120>> >>
    /\ probe.env_vars = << [key |-> <<65>>, value |-> <<66, 61, 67>>] >>

\* The options as the help text names them: -h, --help; -l, --length.
HelpOptions == {<<45, 104>>, <<45, 45, 104, 101, 108, 112>>}
LengthOptions == {<<45, 108>>, <<45, 45, 108, 101, 110, 103, 116, 104>>}

\* The text is a decimal integer: an optional '-' and one or more digits.
DecimalInteger(text) ==
    LET digits == IF text # <<>> /\ text[1] = 45 THEN Tail(text) ELSE text
    IN  digits # <<>> /\ \A k \in 1 .. Len(digits) : IsDigitChar(digits[k])

\* The decimal integer fits in an int.
FitsInt(text) ==
    /\ DecimalInteger(text)
    /\ IF text[1] = 45 THEN InIntRange(TRUE, Tail(text)) ELSE InIntRange(FALSE, text)

\* The int is the value of the decimal integer: printed, it gives the text
\* without its leading zeros ("-0" is 0).
ValueOfText(value, text) ==
    LET negative == text[1] = 45
        sig == StripZeros(IF negative THEN Tail(text) ELSE text)
    IN  Decimal(value) = (IF negative /\ sig # <<48>> THEN <<45>> ELSE <<>>) \o sig

\* The first n arguments are pairs of a length flag and a length value that
\* is entirely a decimal integer; the same, each value fitting in an int.
PairsOfLength(args, n) ==
    /\ n % 2 = 0
    /\ \A k \in 1 .. n :
           IF k % 2 = 1 THEN args[k] \in LengthOptions ELSE DecimalInteger(args[k])

PairsOfIntLength(args, n) ==
    PairsOfLength(args, n) /\ \A k \in 1 .. n : k % 2 = 0 => FitsInt(args[k])

\* What the front-end does given that n, the number of arguments it reads as
\* complete length options before the first terminal condition or the end.
CliOutcome(args, n) ==
    LET result == probe.result
    IN  IF n = Len(args)
        THEN /\ Len(result.generate) = 1
             /\ IF n = 0 THEN result.generate[1] = DEFAULT_LENGTH
                ELSE ValueOfText(result.generate[1], args[n])
             /\ IF /\ result.generate[1] \in MIN_CUID2_LENGTH .. MAX_CUID2_LENGTH
                   /\ probe.evp = EvpAllSucceed
                THEN result.status = 0 /\ Len(result.ids) = 1
                ELSE result.status = 1 /\ result.ids = <<>>
        ELSE /\ result.generate = <<>>
             /\ result.ids = <<>>
             /\ result.status = (IF args[n + 1] \in HelpOptions THEN 0 ELSE 1)

\* C30, as the specification states it: the front-end reads its arguments
\* from left to right and stops at the first terminal condition: a help flag
\* exits with 0 without calling generate; a length flag without a following
\* argument or with a value that is not entirely a decimal integer, or an
\* unknown option, exits with 1 without calling generate; otherwise generate
\* is called exactly once with the value of the last length option (24 if
\* none), and the status is 0 with one identifier printed if it succeeds, 1
\* with none printed if it fails.
C30_CliLeftToRight ==
    probe.fn = "main" =>
        LET args == Tail(probe.argv)
            n == CHOOSE m \in 0 .. Len(args) :
                     /\ PairsOfLength(args, m)
                     /\ \A k \in m + 1 .. Len(args) : ~PairsOfLength(args, k)
        IN  CliOutcome(args, n)

\* C30, amended: the same, a length value that does not fit in an int being
\* rejected like one that is not a decimal integer (status 1, generate not
\* called).
C30_CliLeftToRightIntRange ==
    probe.fn = "main" =>
        LET args == Tail(probe.argv)
            n == CHOOSE m \in 0 .. Len(args) :
                     /\ PairsOfIntLength(args, m)
                     /\ \A k \in m + 1 .. Len(args) : ~PairsOfIntLength(args, k)
        IN  CliOutcome(args, n)

C30_Witness ==
    /\ probe.fn = "main"
    /\ Tail(probe.argv) = << <<45, 108>>, <<51>>,
                             <<45, 45, 108, 101, 110, 103, 116, 104>>, <<49, 54>> >>
    /\ probe.evp = EvpAllSucceed
    /\ probe.result.status = 0
    /\ probe.result.generate = <<16>>
    /\ Len(probe.result.ids) = 1

\* The inverse of COUNTER_SEED_MULTIPLIER modulo 2^64 (6984461551124585695).
MultiplierInverse == <<96, 237, 202, 198, 134, 39, 156, 223>>

\* C27: the counter's initial value is the random 64-bit value, assembled
\* least significant byte first from the 8 random bytes, times 476782367
\* modulo 2^64: the computation returns a value, which multiplied by the
\* inverse of the constant gives the random value back, so that no two
\* random values give one seed.
C27_SeedIsProductModulo ==
    probe.fn = "generate_initial_counter_value" =>
        /\ probe.initial.kind = "value"
        /\ I64Mul(MultiplierInverse, I64FromNat(COUNTER_SEED_MULTIPLIER))
               = I64FromNat(1)
        /\ I64Mul(probe.initial.value_, MultiplierInverse) = Reverse(probe.bytes)

====
